---- MODULE Spec2Model ----
(***************************************************************************)
(* The multiprocessing front end of the engine (MQLLMEngine): the control  *)
(* loop that reads RPC requests from the INPUT socket, drives the wrapped   *)
(* LLMEngine through steps and publishes outputs and heartbeats.           *)
(*                                                                         *)
(* The wrapped LLMEngine is not part of the sources modelled here; its     *)
(* operations are modelled at their call sites as nondeterministic         *)
(* outcomes (return or raise) over a set of in-flight request ids.         *)
(***************************************************************************)
EXTENDS Integers, Sequences, FiniteSets, TLC

(* ---- bounds of the model ---- *)
MaxReq == 2      \* ProcessRequests a client submits (request ids 1..MaxReq)
MaxInput == 2    \* messages a client puts on INPUT in total
MaxSteps == 1    \* engine steps taken by the loop
MaxProbes == 2   \* poll timeouts (health probes) taken by the loop
RpcInput == 2    \* messages on INPUT when the client uses every request type
RpcSteps == 1    \* engine steps then
RpcProbes == 1   \* poll timeouts then
SmallInput == 1  \* messages on INPUT in the runs about startup, shutdown and side channels
SmallSteps == 1  \* engine steps in those runs
SmallProbes == 1 \* poll timeouts in those runs
MaxFrames == 2   \* metadata frames NIXL peers push
MaxCallbacks == 1 \* invocations of remote-prefill callbacks by the engine
LoopInput == 2   \* messages on INPUT in the runs about the INPUT queue
LoopSteps == 2   \* engine steps in the runs about the order of the loop
LoopProbes == 1  \* poll timeouts in those runs

(* ---- values ---- *)
None == "None"                       \* Python None, for exceptions
NoId == 0                            \* Python None, for request ids
RequestIds == 1..MaxReq
VLLM_RPC_SUCCESS_STR == "SUCCESS"
HEALTHY_RESPONSE == VLLM_RPC_SUCCESS_STR

\* Exception instances.  E1, E2, ValueError and RayTaskError are subclasses
\* of Exception; KeyboardInterrupt and SystemExit derive from BaseException
\* only.
ValueError == "ValueError"
UnboundLocalError == "UnboundLocalError"
\* the instances of Exception; the other exceptions derive from
\* BaseException only
Exceptions == {"E1", "E2", "ValueError", "UnboundLocalError", "RayTaskError"}
KeyboardInterrupt == "KeyboardInterrupt"
SystemExit == "SystemExit"
\* ray.exceptions.RayTaskError, an Exception wrapping the cause of a failed task
RayTaskError == "RayTaskError"
RayCause == "E1"

\* what engine.check_health() may raise
HealthExc == {"E1"}

\* what engine.add_request() may raise
AdmitExc == {"E2"}

\* what assembling the startup response may raise
StartupExc == {"E1"}

\* what engine.add_lora() may raise
LoraExc == {"E2", SystemExit}

\* what engine.step() may raise besides InputProcessingError
StepExc == {"E2", RayTaskError, KeyboardInterrupt, SystemExit}

ENGINE_DEAD_ERROR(error) ==
    IF error = None THEN "MQEngineDeadError()"
    ELSE "MQEngineDeadError(" \o error \o ")"

(* ---- messages on OUTPUT ---- *)
RPCError(request_id, is_engine_errored, exception) ==
    [kind |-> "RPCError", request_id |-> request_id,
     is_engine_errored |-> is_engine_errored, exception |-> exception,
     outs |-> {}, is_sleeping |-> FALSE]

RPCAdapterLoadedResponse(request_id) ==
    [kind |-> "RPCAdapterLoadedResponse", request_id |-> request_id,
     is_engine_errored |-> FALSE, exception |-> None,
     outs |-> {}, is_sleeping |-> FALSE]

RPCIsSleepingResponse(request_id, sleeping) ==
    [kind |-> "RPCIsSleepingResponse", request_id |-> request_id,
     is_engine_errored |-> FALSE, exception |-> None,
     outs |-> {}, is_sleeping |-> sleeping]

\* a list of RequestOutput: outs is a set of [request_id, finished]
RequestOutputs(outs) ==
    [kind |-> "RequestOutputs", request_id |-> NoId,
     is_engine_errored |-> FALSE, exception |-> None, outs |-> outs,
     is_sleeping |-> FALSE]

\* an absent payload: None where a REQUEST_OUTPUTS_T is expected
NoOutputs ==
    [kind |-> "None", request_id |-> NoId, is_engine_errored |-> FALSE,
     exception |-> None, outs |-> {}, is_sleeping |-> FALSE]

\* truthiness of a payload: None and an empty list are falsy
Truthy(outputs) ==
    /\ outputs.kind # "None"
    /\ ~(outputs.kind = "RequestOutputs" /\ outputs.outs = {})

(* ---- messages on the data socket ---- *)
IS_SERVER_READY == "IS_SERVER_READY"
\* a pickled object that is not an RPCStartupRequest
OtherQuery == "other"

\* msgspec.msgpack.encode / decode of a NixlMetadata
msgpack_encode(nixl_metadata) == <<"msgpack", nixl_metadata>>
msgpack_decode(frame) == frame[2]

\* Optional[bytes] None
NoBytes == <<>>

\* the pickled reply of run_startup_loop: an RPCStartupResponse or an exception
RPCStartupResponse(tracing_enabled, nixl_metadata) ==
    [kind |-> "RPCStartupResponse", tracing_enabled |-> tracing_enabled,
     nixl_metadata |-> nixl_metadata, exception |-> None]

ExceptionResponse(e) ==
    [kind |-> "exception", tracing_enabled |-> FALSE,
     nixl_metadata |-> NoBytes, exception |-> e]

(* ---- messages on INPUT ---- *)
START_PROFILE == 1
STOP_PROFILE == 2
SLEEP_LEVEL_1 == 1

\* RPCProcessRequest.remote_prefill_params is None
NoParams == [present |-> FALSE, is_remote_prefill |-> FALSE]

\* the fields of a RemotePrefillParams the Gateway reads
RemotePrefillParams(is_remote_prefill) ==
    [present |-> TRUE, is_remote_prefill |-> is_remote_prefill]

\* an INPUT message: its type, its request_id where the type has one, its
\* enum value or level where it has one, and remote_prefill_params
Request(tag, request_id, value, remote_prefill_params) ==
    [tag |-> tag, request_id |-> request_id, value |-> value,
     remote_prefill_params |-> remote_prefill_params]

RPCProcessRequest(request_id) == Request("RPCProcessRequest", request_id, 0, NoParams)
RPCProcessRequestWith(request_id, remote_prefill_params) ==
    Request("RPCProcessRequest", request_id, 0, remote_prefill_params)
RPCAbortRequest(request_id) == Request("RPCAbortRequest", request_id, 0, NoParams)
RPCUProfileRequest(value) == Request("RPCUProfileRequest", NoId, value, NoParams)
RPCLoadAdapterRequest(request_id) == Request("RPCLoadAdapterRequest", request_id, 0, NoParams)
RPCResetMultiModalCacheRequest == Request("RPCResetMultiModalCacheRequest", NoId, 0, NoParams)
RPCResetPrefixCacheRequest == Request("RPCResetPrefixCacheRequest", NoId, 0, NoParams)
RPCSleepRequest(value) == Request("RPCSleepRequest", NoId, value, NoParams)
RPCWakeUpRequest == Request("RPCWakeUpRequest", NoId, 0, NoParams)
RPCIsSleepingRequest(request_id) == Request("RPCIsSleepingRequest", request_id, 0, NoParams)
\* a pickled object that is none of the request types
UnknownRequest == Request("Unknown", NoId, 0, NoParams)

\* the members of RPC_REQUEST_T that travel on INPUT
RPC_REQUEST_T ==
    {"RPCProcessRequest", "RPCAbortRequest", "RPCUProfileRequest",
     "RPCLoadAdapterRequest", "RPCResetMultiModalCacheRequest",
     "RPCResetPrefixCacheRequest", "RPCSleepRequest", "RPCWakeUpRequest",
     "RPCIsSleepingRequest"}

\* the request types the model's first client uses
BasicTags ==
    {"RPCProcessRequest", "RPCAbortRequest",
     "RPCResetMultiModalCacheRequest", "Unknown"}

VARIABLES
    pc,                 \* position of the control thread
    in_step,            \* TRUE while inside engine.step() (in its callback)
    use_async_sockets,  \* overlap mode
    errored_with,       \* self._errored_with
    input_q,            \* messages queued on the INPUT socket
    output,             \* messages sent on the OUTPUT socket
    health,             \* messages sent on the heartbeat socket
    unfinished,         \* request ids the engine holds as unfinished
    engine_calls,       \* calls the latest Gateway action made on the engine
    step_result,        \* how the latest engine.step() ended
    next_rid,           \* next fresh request id of the client
    sent,               \* messages the client has sent
    step_count,         \* engine steps started
    probe_count,        \* poll timeouts taken
    closed,             \* sockets closed by cleanup
    env,                \* what the environment does in this run: the message
                        \* types the client uses and how many messages,
                        \* steps and poll timeouts there are
    is_sleeping,        \* engine.is_sleeping()
    engine,             \* what the wrapped engine was built as: its tracing
                        \* flag, is_nixl_initialized and its own NIXL metadata
    data_socket,        \* replies sent on the data socket of run_startup_loop
    escaped,            \* the exception that left the loops of start
    cleanup_count,      \* runs of cleanup
    engine_deleted,     \* `del self.engine` has run
    engine_alive,       \* the flag run_mp_engine shares with its parent
    kv_stat_logger,     \* the KvStatLogger attached to the engine
    metrics,            \* messages sent on the metrics socket
    nixl_q,             \* frames queued on remote_nixl_metadata_socket
    remote_nixl,        \* engine ids whose NIXL metadata the engine holds
    prefill_out,        \* messages sent on remote_prefill_request_socket
    callbacks,          \* request ids whose remote_prefill_params carried
                        \* the callback when handed to engine.add_request
    peer_sent,          \* frames the NIXL peers have pushed
    callback_count,     \* invocations of remote-prefill callbacks
    request_outputs,    \* the list of the latest engine.step(): what the
                        \* callback was given and what engine_step returned
    dispatch_count      \* messages taken off INPUT by handle_new_input

vars == <<pc, in_step, use_async_sockets, errored_with, input_q, output,
          health, unfinished, engine_calls, step_result, next_rid, sent,
          step_count, probe_count, closed, env, is_sleeping, engine,
          data_socket, escaped, cleanup_count, engine_deleted, engine_alive,
          kv_stat_logger, metrics,
          nixl_q, remote_nixl, prefill_out, callbacks, peer_sent,
          callback_count, request_outputs, dispatch_count>>

Call(op, request_id, raised) == [op |-> op, request_id |-> request_id, raised |-> raised]

StepResult(kind, request_id, exception) ==
    [kind |-> kind, request_id |-> request_id, exception |-> exception]

(* ---- MQLLMEngine helpers ---- *)

\* _set_errored without its `is None` test: the latest cause wins
_set_errored_latest(cur, e) == e

\* _set_errored: keep the first cause
_set_errored(cur, e) == IF cur = None THEN e ELSE cur

\* _send_outputs, the RayTaskError branch: the exception of an RPCError is
\* replaced by its cause.  An instance of RayTaskError exists only where ray
\* can be imported, so the ImportError branch never meets one.
Unwrap(outputs) ==
    IF outputs.kind = "RPCError" /\ outputs.exception = RayTaskError
    THEN [outputs EXCEPT !.exception = RayCause]
    ELSE outputs

\* _send_outputs without its `if outputs` test
_send_outputs_always(out, outputs) == Append(out, Unwrap(outputs))

\* _send_outputs: a falsy payload is not sent
_send_outputs(out, outputs) ==
    IF Truthy(outputs) THEN Append(out, Unwrap(outputs)) ELSE out

_send_healthy(h) == IF ~closed THEN Append(h, HEALTHY_RESPONSE) ELSE h

_send_unhealthy(h, error) == IF ~closed THEN Append(h, error) ELSE h

(* ---- the engine, as the Gateway sees it ---- *)

\* engine.add_request returning: the request is unfinished from now on
engine_add_request(unf, request_id) == unf \cup {request_id}

\* engine.abort_request: the request is forgotten; an unknown id is ignored
engine_abort_request(unf, request_id) == unf \ {request_id}

\* engine.step raising InputProcessingError for request_id: the request is
\* dropped from the batch.  The error comes from preparing the batch, which
\* precedes the point where a step calls the output callback.
engine_drop_request(unf, request_id) == unf \ {request_id}

\* run_engine_loop blocking on INPUT at the top of every iteration
LoopTop_always_poll(unf) == "poll"

\* top of `while True` in run_engine_loop: poll only when the engine is idle
LoopTop(unf) == IF unf = {} THEN "poll" ELSE "handle"

\* the NIXL metadata of an engine, by its engine_id
NixlMetadata(engine_id) == [engine_id |-> engine_id]
LocalEngineId == 0

\* an engine built with or without tracing and NIXL, with
\* scheduler_config.max_num_seqs and cache_config.num_gpu_blocks
Engine(tracing_enabled, nixl, max_num_seqs, num_gpu_blocks) ==
    [is_tracing_enabled |-> tracing_enabled, is_nixl_initialized |-> nixl,
     nixl_metadata |-> NixlMetadata(LocalEngineId),
     max_num_seqs |-> max_num_seqs, num_gpu_blocks |-> num_gpu_blocks]

\* an engine without tracing and NIXL
PlainEngine == Engine(FALSE, FALSE, 2, 4)

\* capacities of the engines whose metrics are looked at
SlotCaps == {1, 2}
BlockCaps == {4, 5}

(* ---- KvStatLogger ---- *)

KvMetrics(request_active_slots, request_total_slots, kv_active_blocks, kv_total_blocks, num_requests_waiting, gpu_cache_usage_perc, gpu_prefix_cache_hit_rate) ==
    [request_active_slots |-> request_active_slots,
     request_total_slots |-> request_total_slots,
     kv_active_blocks |-> kv_active_blocks,
     kv_total_blocks |-> kv_total_blocks,
     num_requests_waiting |-> num_requests_waiting,
     gpu_cache_usage_perc |-> gpu_cache_usage_perc,
     gpu_prefix_cache_hit_rate |-> gpu_prefix_cache_hit_rate]

\* the fields of Stats the logger reads; the two rates, floats in [0, 1] in
\* the source, are kept in hundredths
Stats(num_running_sys, num_waiting_sys, gpu_cache_usage_sys, gpu_prefix_cache_hit_rate) ==
    [num_running_sys |-> num_running_sys, num_waiting_sys |-> num_waiting_sys,
     gpu_cache_usage_sys |-> gpu_cache_usage_sys,
     gpu_prefix_cache_hit_rate |-> gpu_prefix_cache_hit_rate]

\* the Stats an engine that logs may hand to its loggers
StatsSet == {Stats(0, 0, 0, 0), Stats(1, 1, 50, 25)}

\* _send_kv_metrics reporting the active numbers as the totals
_send_kv_metrics_totals_from_active(m, is_closed, logger, active_slots, active_kv_blocks, num_requests_waiting, gpu_cache_usage_perc, gpu_prefix_cache_hit_rate) ==
    IF ~is_closed
    THEN Append(m, KvMetrics(active_slots, active_slots,
                             active_kv_blocks, active_kv_blocks,
                             num_requests_waiting, gpu_cache_usage_perc,
                             gpu_prefix_cache_hit_rate))
    ELSE m

\* KvStatLogger._send_kv_metrics: m is what the metrics socket has carried
_send_kv_metrics(m, is_closed, logger, active_slots, active_kv_blocks, num_requests_waiting, gpu_cache_usage_perc, gpu_prefix_cache_hit_rate) ==
    IF ~is_closed
    THEN Append(m, KvMetrics(active_slots, logger.request_total_slots,
                             active_kv_blocks, logger.kv_total_blocks,
                             num_requests_waiting, gpu_cache_usage_perc,
                             gpu_prefix_cache_hit_rate))
    ELSE m

\* KvStatLogger.__init__: the fields it stores
KvStatLogger(max_num_seqs, num_total_gpu_blocks) ==
    [request_total_slots |-> max_num_seqs,
     kv_total_blocks |-> num_total_gpu_blocks]

\* KvStatLogger.__init__: the snapshot it sends
KvStatLogger_init_send(m, is_closed, logger) ==
    _send_kv_metrics(m, is_closed, logger, 0, 0, 0, 0, 0)

\* KvStatLogger.log; int(usage * total) with usage in hundredths
KvStatLogger_log(m, is_closed, logger, stats) ==
    _send_kv_metrics(m, is_closed, logger,
                     stats.num_running_sys,
                     (stats.gpu_cache_usage_sys * logger.kv_total_blocks) \div 100,
                     stats.num_waiting_sys,
                     stats.gpu_cache_usage_sys,
                     stats.gpu_prefix_cache_hit_rate)

\* the engine handing its stats, if it logs any, to the attached logger
engine_log_stats(m, is_closed, logger, logged) ==
    IF logged = <<>> THEN m ELSE KvStatLogger_log(m, is_closed, logger, logged[1])

\* the state after MQLLMEngine.__init__ around the engine eng
Constructed(eng) ==
    /\ engine = eng
    /\ kv_stat_logger = KvStatLogger(eng.max_num_seqs, eng.num_gpu_blocks)
    /\ metrics = KvStatLogger_init_send(
                    <<>>, FALSE, KvStatLogger(eng.max_num_seqs, eng.num_gpu_blocks))
    /\ pc = "startup"
    /\ in_step = FALSE
    /\ use_async_sockets \in BOOLEAN
    /\ errored_with = None
    /\ input_q = <<>>
    /\ output = <<>>
    /\ health = <<>>
    /\ unfinished = {}
    /\ engine_calls = <<>>
    /\ step_result = StepResult("none", NoId, None)
    /\ next_rid = 1
    /\ sent = 0
    /\ step_count = 0
    /\ probe_count = 0
    /\ closed = FALSE
    /\ is_sleeping = FALSE
    /\ data_socket = <<>>
    /\ escaped = None
    /\ cleanup_count = 0
    /\ engine_deleted = FALSE
    /\ engine_alive = TRUE
    /\ nixl_q = <<>>
    /\ remote_nixl = {}
    /\ prefill_out = <<>>
    /\ callbacks = {}
    /\ peer_sent = 0
    /\ callback_count = 0
    /\ request_outputs = RequestOutputs({})
    /\ dispatch_count = 0


\* the environment of a run: the request types the client uses, how many
\* messages it sends, how many steps and poll timeouts the run has, and what
\* assembling the startup response may raise, and the Stats the engine hands
\* to its loggers (none when it does not log), and the remote_prefill_params
\* the client puts in its ProcessRequests
Env(tags, max_input, max_steps, max_probes, startup_exc, stats, params) ==
    [tags |-> tags, max_input |-> max_input, max_steps |-> max_steps,
     max_probes |-> max_probes, startup_exc |-> startup_exc, stats |-> stats,
     params |-> params]

\* what the engine logs in one do_log_stats or step: nothing or one Stats
Logged == {<<>>} \cup {<<st>> : st \in env.stats}

Init ==
    /\ Constructed(PlainEngine)
    /\ env = Env(BasicTags, MaxInput, MaxSteps, MaxProbes, {}, {}, {NoParams})

(* ---- the client ---- *)

\* request ids are fresh: a request that carries its own id takes the next one
Fresh(n) == IF n <= MaxReq THEN {n} ELSE {}

AllMessages ==
    {RPCAbortRequest(r) : r \in {x \in RequestIds : x <= next_rid}}
        \cup {RPCProcessRequestWith(r, p) : r \in Fresh(next_rid), p \in env.params}
        \cup {RPCLoadAdapterRequest(r) : r \in Fresh(next_rid)}
        \cup {RPCIsSleepingRequest(r) : r \in Fresh(next_rid)}
        \cup {RPCUProfileRequest(START_PROFILE), RPCUProfileRequest(STOP_PROFILE),
              RPCResetMultiModalCacheRequest, RPCResetPrefixCacheRequest,
              RPCSleepRequest(SLEEP_LEVEL_1), RPCWakeUpRequest, UnknownRequest}

ClientMessages == {m \in AllMessages : m.tag \in env.tags}

\* a client pushes one message on the INPUT socket
ClientSend ==
    /\ pc \notin {"cleanup", "done"}
    /\ sent < env.max_input
    /\ \E m \in ClientMessages :
        /\ input_q' = Append(input_q, m)
        /\ next_rid' = IF m.tag # "RPCAbortRequest" /\ m.request_id = next_rid
                       THEN next_rid + 1 ELSE next_rid
    /\ sent' = sent + 1
    /\ UNCHANGED <<pc, in_step, use_async_sockets, errored_with, output,
                   health, unfinished, engine_calls, step_result, step_count,
                   probe_count, closed, env, is_sleeping, engine,
                   data_socket, escaped, cleanup_count, engine_deleted,
                   engine_alive, kv_stat_logger, metrics, nixl_q,
                   remote_nixl, prefill_out, callbacks, peer_sent,
                   callback_count, request_outputs, dispatch_count>>

(* ---- start ---- *)

\* start leaving its loops everywhere but through `finally`
start_finally_except_only(e) ==
    IF e \in {KeyboardInterrupt} \cup Exceptions THEN "cleanup" ELSE "done"

\* start, `finally`: whatever exception e leaves the loops, cleanup is next
start_finally(e) == "cleanup"

\* start answering every exception by re-raising it
start_propagates_all(e) == e # None

\* start, `except Exception` and `except KeyboardInterrupt`: does e leave start
start_propagates(e) == e \notin {None, KeyboardInterrupt} \cup Exceptions

\* run_mp_engine, `except BaseException`: the flag after start has ended
run_mp_engine_alive(alive, e) == IF start_propagates(e) THEN FALSE ELSE alive

\* what arrives on the data socket: the query, another object, or nothing
\* because recv_multipart raises
StartupEvents == {IS_SERVER_READY, OtherQuery, "recv_error"}

\* run_startup_loop: is there a reply.  Without the query `response` is
\* unbound, without a received message `identity` is: send_multipart is
\* not reached.
run_startup_loop_replies(event) == event = IS_SERVER_READY

\* run_startup_loop leaving the metadata out
run_startup_loop_response_plain(eng, res) ==
    IF res # None THEN ExceptionResponse(res)
    ELSE RPCStartupResponse(eng.is_tracing_enabled, NoBytes)

\* run_startup_loop, the response to IS_SERVER_READY: res is None when
\* assembling it raises nothing and the exception otherwise
run_startup_loop_response(eng, res) ==
    IF res # None THEN ExceptionResponse(res)
    ELSE IF eng.is_nixl_initialized
    THEN RPCStartupResponse(eng.is_tracing_enabled,
                            msgpack_encode(eng.nixl_metadata))
    ELSE RPCStartupResponse(eng.is_tracing_enabled, NoBytes)

\* run_startup_loop; when it returns run_engine_loop is entered
run_startup_loop ==
    /\ pc = "startup"
    /\ \E event \in StartupEvents, res \in {None} \cup env.startup_exc :
        IF run_startup_loop_replies(event)
        THEN /\ data_socket' = Append(data_socket,
                                      run_startup_loop_response(engine, res))
             /\ engine_calls' = <<Call("is_tracing_enabled", NoId, res)>>
             /\ pc' = LoopTop(unfinished)
             /\ escaped' = escaped
        ELSE /\ res = None
             /\ data_socket' = data_socket
             /\ engine_calls' = <<>>
             /\ pc' = start_finally(UnboundLocalError)
             /\ escaped' = UnboundLocalError
    /\ UNCHANGED <<in_step, use_async_sockets, errored_with, input_q, output,
                   health, unfinished, step_result, next_rid, sent,
                   step_count, probe_count, closed, env, is_sleeping, engine,
                   cleanup_count, engine_deleted, engine_alive,
                   kv_stat_logger, metrics, nixl_q, remote_nixl, prefill_out,
                   callbacks, peer_sent, callback_count, request_outputs,
                   dispatch_count>>

\* cleanup, reached from `finally` in start on every way out of the loops
cleanup ==
    /\ pc = "cleanup"
    /\ closed' = TRUE
    /\ engine_deleted' = TRUE
    /\ cleanup_count' = cleanup_count + 1
    /\ engine_alive' = run_mp_engine_alive(engine_alive, escaped)
    /\ pc' = "done"
    /\ engine_calls' = <<>>
    /\ UNCHANGED <<in_step, use_async_sockets, errored_with, input_q, output,
                   health, unfinished, step_result, next_rid, sent,
                   step_count, probe_count, env, is_sleeping, engine,
                   data_socket, escaped, kv_stat_logger, metrics, nixl_q,
                   remote_nixl, prefill_out, callbacks, peer_sent,
                   callback_count, request_outputs, dispatch_count>>

(* ---- idle polling and the health check ---- *)

\* _health_check, heartbeat side: res is None when engine.check_health()
\* returns and the exception when it raises
_health_check_heartbeat(h, cur, res) ==
    LET h1 == IF cur # None THEN _send_unhealthy(h, cur) ELSE h
    IN  IF res = None THEN _send_healthy(h1) ELSE _send_unhealthy(h1, res)

\* _health_check without its _set_errored call
_health_check_errored_unset(cur, res) == cur

\* _health_check, latch side
_health_check_errored(cur, res) ==
    IF res = None THEN cur ELSE _set_errored(cur, res)

\* calls _health_check makes on the engine
_health_check_calls(cur, res) == <<Call("check_health", NoId, res)>>

\* input_socket.poll(timeout=POLLING_TIMEOUT_MS) == 0: the body of the idle
\* loop, _health_check() then engine.do_log_stats()
PollTimeout ==
    /\ pc = "poll"
    /\ input_q = <<>>
    /\ probe_count < env.max_probes
    /\ \E res \in {None} \cup HealthExc :
        /\ health' = _health_check_heartbeat(health, errored_with, res)
        /\ errored_with' = _health_check_errored(errored_with, res)
        /\ engine_calls' = Append(_health_check_calls(errored_with, res),
                                  Call("do_log_stats", NoId, None))
    /\ \E logged \in Logged :
        metrics' = engine_log_stats(metrics, closed, kv_stat_logger, logged)
    /\ probe_count' = probe_count + 1
    /\ UNCHANGED <<pc, in_step, use_async_sockets, input_q, output,
                   unfinished, step_result, next_rid, sent, step_count,
                   closed, env, is_sleeping, engine, data_socket, escaped,
                   cleanup_count, engine_deleted, engine_alive,
                   kv_stat_logger, nixl_q, remote_nixl, prefill_out,
                   callbacks, peer_sent, callback_count, request_outputs,
                   dispatch_count>>

\* input_socket.poll(...) != 0: leave the idle loop for handle_new_input
PollReady ==
    /\ pc = "poll"
    /\ input_q # <<>>
    /\ pc' = "handle"
    /\ engine_calls' = <<>>
    /\ UNCHANGED <<in_step, use_async_sockets, errored_with, input_q, output,
                   health, unfinished, step_result, next_rid, sent,
                   step_count, probe_count, closed, env, is_sleeping, engine,
                   data_socket, escaped, cleanup_count, engine_deleted,
                   engine_alive, kv_stat_logger, metrics, nixl_q,
                   remote_nixl, prefill_out, callbacks, peer_sent,
                   callback_count, request_outputs, dispatch_count>>

(* ---- handle_new_input ---- *)

\* a zero-wait poll that never reports a queued message
input_socket_poll_now_blind(q) == 0

\* input_socket.poll(timeout=0) of the INPUT loop: nonzero when a message is
\* queued
input_socket_poll_now(q) == IF q = <<>> THEN 0 ELSE 1

\* a receive that leaves the message on the socket
input_socket_recv_peek(q) == q

\* input_socket.recv_multipart: the oldest message leaves the socket
input_socket_recv(q) == Tail(q)

\* engine.add_remote_nixl_metadata for each of the frames: the metadata is
\* kept under its engine_id
engine_add_remote_nixl_metadata(reg, frames) ==
    reg \cup {msgpack_decode(frames[i]).engine_id : i \in DOMAIN frames}

\* handle_new_input taking one metadata frame a pass
handle_new_input_metadata_one(eng, frames) ==
    IF eng.is_nixl_initialized /\ frames # <<>> THEN <<Head(frames)>> ELSE <<>>

\* handle_new_input, the metadata loop: the frames it receives, which are
\* all that are queued when NIXL is initialized and none otherwise
handle_new_input_metadata(eng, frames) ==
    IF eng.is_nixl_initialized THEN frames ELSE <<>>

\* handle_new_input is entered: the remote_nixl_metadata_socket is drained
\* by poll(timeout=0), then the INPUT loop begins
HandleNewInput ==
    /\ pc = "handle"
    /\ LET frames == handle_new_input_metadata(engine, nixl_q) IN
        /\ nixl_q' = SubSeq(nixl_q, Len(frames) + 1, Len(nixl_q))
        /\ remote_nixl' = engine_add_remote_nixl_metadata(remote_nixl, frames)
        /\ engine_calls' = [i \in DOMAIN frames |->
                              Call("add_remote_nixl_metadata",
                                   msgpack_decode(frames[i]).engine_id, None)]
    /\ pc' = "drain"
    /\ UNCHANGED <<in_step, use_async_sockets, errored_with, input_q, output,
                   health, unfinished, step_result, next_rid, sent,
                   step_count, probe_count, closed, env, is_sleeping, engine,
                   data_socket, escaped, cleanup_count, engine_deleted,
                   engine_alive, kv_stat_logger, metrics, prefill_out,
                   callbacks, peer_sent, callback_count, request_outputs,
                   dispatch_count>>

\* _handle_process_request installing the callback on any params
_handle_process_request_callback_any(request) ==
    request.remote_prefill_params.present

\* _handle_process_request: is remote_prefill_request_callback set on the
\* params before add_request is called
_handle_process_request_callback(request) ==
    /\ request.remote_prefill_params.present
    /\ request.remote_prefill_params.is_remote_prefill

\* _handle_process_request, OUTPUT side: res is None when
\* engine.add_request returns and the exception when it raises
_handle_process_request_out(out, cur, request_id, res) ==
    LET out1 == IF cur # None
                THEN _send_outputs(out, RPCError(request_id, TRUE, ENGINE_DEAD_ERROR(cur)))
                ELSE out
    IN  IF res = None THEN out1
        ELSE _send_outputs(out1, RPCError(request_id, cur # None, res))

\* _handle_process_request, calls on the engine
_handle_process_request_calls(cur, request_id, res) ==
    LET c1 == <<Call("add_request", request_id, res)>>
    IN  IF res = None THEN c1
        ELSE Append(c1, Call("abort_request", request_id, None))

\* _handle_process_request, requests the engine holds afterwards
_handle_process_request_unfinished(unf, cur, request_id, res) ==
    IF res = None THEN engine_add_request(unf, request_id)
    ELSE engine_abort_request(unf, request_id)

\* _handle_abort_request acknowledging the abort
_handle_abort_request_out_ack(out, request_id) ==
    _send_outputs(out, RPCError(request_id, FALSE, None))

\* _handle_abort_request, OUTPUT side: nothing is sent
_handle_abort_request_out(out, request_id) == out

\* _handle_load_adapter_request reporting a failed load as an engine error
_handle_load_adapter_request_out_errored(out, request_id, res) ==
    IF res = None THEN _send_outputs(out, RPCAdapterLoadedResponse(request_id))
    ELSE _send_outputs(out, RPCError(request_id, TRUE, res))

\* _handle_load_adapter_request, OUTPUT side: res is None when
\* engine.add_lora returns and the exception when it raises
_handle_load_adapter_request_out(out, request_id, res) ==
    IF res = None THEN _send_outputs(out, RPCAdapterLoadedResponse(request_id))
    ELSE _send_outputs(out, RPCError(request_id, FALSE, res))

\* _handle_is_sleeping_request answering with a constant
_handle_is_sleeping_request_out_awake(out, request_id, sleeping) ==
    _send_outputs(out, RPCIsSleepingResponse(request_id, FALSE))

\* _handle_is_sleeping_request, OUTPUT side
_handle_is_sleeping_request_out(out, request_id, sleeping) ==
    _send_outputs(out, RPCIsSleepingResponse(request_id, sleeping))

\* the request types handle_new_input answers by one call of a wrapper
ControlTags ==
    {"RPCUProfileRequest", "RPCResetPrefixCacheRequest", "RPCSleepRequest",
     "RPCWakeUpRequest"}

\* handle_new_input stopping the profile whatever the request says
ControlOp_stop_only(request) ==
    CASE request.tag = "RPCUProfileRequest" -> "stop_profile"
      [] request.tag = "RPCResetPrefixCacheRequest" -> "reset_prefix_cache"
      [] request.tag = "RPCSleepRequest" -> "sleep"
      [] request.tag = "RPCWakeUpRequest" -> "wake_up"

\* the engine operation behind the wrapper handle_new_input calls
ControlOp(request) ==
    CASE request.tag = "RPCUProfileRequest" ->
            IF request.value = START_PROFILE THEN "start_profile" ELSE "stop_profile"
      [] request.tag = "RPCResetPrefixCacheRequest" -> "reset_prefix_cache"
      [] request.tag = "RPCSleepRequest" -> "sleep"
      [] request.tag = "RPCWakeUpRequest" -> "wake_up"

\* engine.sleep puts the engine to sleep, engine.wake_up wakes it, the
\* other operations leave is_sleeping alone
engine_control(sleeping, op) ==
    CASE op = "sleep" -> TRUE
      [] op = "wake_up" -> FALSE
      [] OTHER -> sleeping

\* the isinstance chain of handle_new_input: the tags it has a branch for
Dispatched ==
    {"RPCProcessRequest", "RPCAbortRequest", "RPCLoadAdapterRequest",
     "RPCIsSleepingRequest"} \cup ControlTags

\* one message of the drain loop handled without an exception escaping
DispatchOk ==
    /\ pc = "drain"
    /\ input_socket_poll_now(input_q) # 0
    /\ LET request == Head(input_q) IN
        /\ request.tag \in Dispatched
        /\ \/ /\ request.tag = "RPCProcessRequest"
              /\ \E res \in {None} \cup AdmitExc :
                  /\ output' = _handle_process_request_out(
                                   output, errored_with, request.request_id, res)
                  /\ engine_calls' = _handle_process_request_calls(
                                   errored_with, request.request_id, res)
                  /\ unfinished' = _handle_process_request_unfinished(
                                   unfinished, errored_with, request.request_id, res)
              /\ callbacks' = IF _handle_process_request_callback(request)
                              THEN callbacks \cup {request.request_id}
                              ELSE callbacks
              /\ is_sleeping' = is_sleeping
           \/ /\ request.tag = "RPCAbortRequest"
              /\ callbacks' = callbacks
              /\ engine_calls' = <<Call("abort_request", request.request_id, None)>>
              /\ unfinished' = engine_abort_request(unfinished, request.request_id)
              /\ output' = _handle_abort_request_out(output, request.request_id)
              /\ is_sleeping' = is_sleeping
           \/ /\ request.tag = "RPCLoadAdapterRequest"
              /\ callbacks' = callbacks
              /\ \E res \in {None} \cup LoraExc :
                  /\ engine_calls' = <<Call("add_lora", request.request_id, res)>>
                  /\ output' = _handle_load_adapter_request_out(
                                   output, request.request_id, res)
              /\ unfinished' = unfinished
              /\ is_sleeping' = is_sleeping
           \/ /\ request.tag = "RPCIsSleepingRequest"
              /\ callbacks' = callbacks
              /\ engine_calls' = <<Call("is_sleeping", request.request_id, None)>>
              /\ output' = _handle_is_sleeping_request_out(
                               output, request.request_id, is_sleeping)
              /\ unfinished' = unfinished
              /\ is_sleeping' = is_sleeping
           \/ /\ request.tag \in ControlTags
              /\ callbacks' = callbacks
              /\ engine_calls' = <<Call(ControlOp(request), NoId, None)>>
              /\ is_sleeping' = engine_control(is_sleeping, ControlOp(request))
              /\ output' = output
              /\ unfinished' = unfinished
    /\ input_q' = input_socket_recv(input_q)
    /\ dispatch_count' = dispatch_count + 1
    /\ UNCHANGED <<pc, in_step, use_async_sockets, errored_with, health,
                   step_result, next_rid, sent, step_count, probe_count,
                   closed, env, engine, data_socket, escaped, cleanup_count,
                   engine_deleted, engine_alive, kv_stat_logger, metrics,
                   nixl_q, remote_nixl, prefill_out, peer_sent,
                   callback_count, request_outputs>>

\* engine_step sending its fatal error as a per-request error would
engine_step_fatal_out_not_errored(out, e) == _send_outputs(out, RPCError(NoId, FALSE, e))

\* engine_step, `except BaseException`: what is sent on OUTPUT
engine_step_fatal_out(out, e) == _send_outputs(out, RPCError(NoId, TRUE, e))

\* handle_new_input, `except Exception`: what is sent on the heartbeat socket
handle_new_input_fail_heartbeat(h, e) == _send_unhealthy(h, e)

\* handle_new_input sending the broadcast error itself
handle_new_input_fail_out_always(out, inside_step, e) == engine_step_fatal_out(out, e)

\* handle_new_input, `except Exception`: what is sent on OUTPUT.  Called from
\* run_engine_loop the exception leaves the loop; called from the callback it
\* leaves engine.step() and is caught again by engine_step.
handle_new_input_fail_out(out, inside_step, e) ==
    IF inside_step THEN engine_step_fatal_out(out, e) ELSE out

\* one message of the drain loop whose type has no branch: ValueError
DispatchFail ==
    /\ pc = "drain"
    /\ input_socket_poll_now(input_q) # 0
    /\ Head(input_q).tag \notin Dispatched
    /\ input_q' = input_socket_recv(input_q)
    /\ dispatch_count' = dispatch_count + 1
    /\ errored_with' = _set_errored(errored_with, ValueError)
    /\ health' = handle_new_input_fail_heartbeat(health, ValueError)
    /\ output' = handle_new_input_fail_out(output, in_step, ValueError)
    /\ step_result' = IF in_step THEN StepResult("raise", NoId, ValueError)
                      ELSE step_result
    /\ in_step' = FALSE
    /\ pc' = start_finally(ValueError)
    /\ escaped' = ValueError
    /\ engine_calls' = <<>>
    /\ UNCHANGED <<use_async_sockets, unfinished, next_rid, sent, step_count,
                   probe_count, closed, env, is_sleeping, engine,
                   data_socket, cleanup_count, engine_deleted, engine_alive,
                   kv_stat_logger, metrics, nixl_q, remote_nixl, prefill_out,
                   callbacks, peer_sent, callback_count, request_outputs>>

\* input_socket.poll(timeout=0) == 0 in run_engine_loop's handle_new_input
DrainDone ==
    /\ pc = "drain"
    /\ ~in_step
    /\ input_socket_poll_now(input_q) = 0
    /\ pc' = "step"
    /\ engine_calls' = <<>>
    /\ UNCHANGED <<in_step, use_async_sockets, errored_with, input_q, output,
                   health, unfinished, step_result, next_rid, sent,
                   step_count, probe_count, closed, env, is_sleeping, engine,
                   data_socket, escaped, cleanup_count, engine_deleted,
                   engine_alive, kv_stat_logger, metrics, nixl_q,
                   remote_nixl, prefill_out, callbacks, peer_sent,
                   callback_count, request_outputs, dispatch_count>>

(* ---- engine_step ---- *)

\* the lists of RequestOutput a step can produce for the requests in unf:
\* at most one entry per request, each finished or not
OutSets(unf) ==
    UNION {{{[request_id |-> r, finished |-> f[r]] : r \in S} : f \in [S -> BOOLEAN]}
           : S \in SUBSET unf}

Finished(outs) == {o.request_id : o \in {x \in outs : x.finished}}

\* a step that produced outs: the finished requests leave the engine
engine_finish_requests(unf, outs) == unf \ Finished(outs)

\* cause carried by an InputProcessingError
IPECauses == {"E1"}

\* engine_step reporting a per-request input error as an engine error
engine_step_ipe_out_errored(out, request_id, cause) ==
    _send_outputs(out, RPCError(request_id, TRUE, cause))

\* engine_step, `except InputProcessingError`: what is sent on OUTPUT
engine_step_ipe_out(out, request_id, cause) ==
    _send_outputs(out, RPCError(request_id, FALSE, cause))

\* engine_step, `except InputProcessingError`: the value returned
engine_step_ipe_return == RequestOutputs({})

\* engine_step, `except SystemExit` and `except BaseException`: the latch
engine_step_errored(cur, e) ==
    IF e = SystemExit THEN cur ELSE _set_errored(cur, e)

\* engine_step, `except SystemExit` and `except BaseException`: OUTPUT
engine_step_raise_out(out, e) ==
    IF e = SystemExit THEN out ELSE engine_step_fatal_out(out, e)

\* engine_step swallowing the exception: the loop goes on
engine_step_raise_swallowed(unf, e) == LoopTop(unf)

\* engine_step, `raise` / `raise e`: the exception leaves run_engine_loop and
\* start reaches its `finally`
engine_step_raise_next(unf, e) == start_finally(e)

\* run_engine_loop dropping what engine_step returned
run_engine_loop_send_skipped(out, async, outputs) == out

\* run_engine_loop after engine_step: outputs are sent here unless the
\* callback sends them
run_engine_loop_send(out, async, outputs) ==
    IF ~async THEN _send_outputs(out, outputs) ELSE out

\* engine.step() returns without having called the callback
StepReturn ==
    /\ pc = "step"
    /\ step_count < env.max_steps
    /\ \E outs \in (IF use_async_sockets THEN {{}} ELSE OutSets(unfinished)) :
        /\ unfinished' = engine_finish_requests(unfinished, outs)
        /\ output' = run_engine_loop_send(output, use_async_sockets, RequestOutputs(outs))
        /\ request_outputs' = RequestOutputs(outs)
    /\ \E logged \in Logged :
        metrics' = engine_log_stats(metrics, closed, kv_stat_logger, logged)
    /\ engine_calls' = <<Call("step", NoId, None)>>
    /\ step_result' = StepResult("return", NoId, None)
    /\ step_count' = step_count + 1
    /\ pc' = LoopTop(unfinished')
    /\ UNCHANGED <<in_step, use_async_sockets, errored_with, input_q, health,
                   next_rid, sent, probe_count, closed, env, is_sleeping,
                   engine, data_socket, escaped, cleanup_count,
                   engine_deleted, engine_alive, kv_stat_logger, nixl_q,
                   remote_nixl, prefill_out, callbacks, peer_sent,
                   callback_count, dispatch_count>>

\* engine.step() raises InputProcessingError for one request of the batch,
\* which the engine drops
StepInputProcessingError ==
    /\ pc = "step"
    /\ step_count < env.max_steps
    /\ \E r \in unfinished, cause \in IPECauses :
        /\ unfinished' = engine_drop_request(unfinished, r)
        /\ output' = run_engine_loop_send(engine_step_ipe_out(output, r, cause),
                                          use_async_sockets, engine_step_ipe_return)
        /\ engine_calls' = <<Call("step", r, "InputProcessingError")>>
        /\ step_result' = StepResult("ipe", r, cause)
    /\ request_outputs' = engine_step_ipe_return
    /\ step_count' = step_count + 1
    /\ pc' = LoopTop(unfinished')
    /\ UNCHANGED <<in_step, use_async_sockets, errored_with, input_q, health,
                   next_rid, sent, probe_count, closed, env, is_sleeping,
                   engine, data_socket, escaped, cleanup_count,
                   engine_deleted, engine_alive, kv_stat_logger, metrics,
                   nixl_q, remote_nixl, prefill_out, callbacks, peer_sent,
                   callback_count, dispatch_count>>

\* engine.step() raises anything else before the callback
StepRaise ==
    /\ pc = "step"
    /\ step_count < env.max_steps
    /\ \E e \in StepExc :
        /\ errored_with' = engine_step_errored(errored_with, e)
        /\ output' = engine_step_raise_out(output, e)
        /\ engine_calls' = <<Call("step", NoId, e)>>
        /\ step_result' = StepResult("raise", NoId, e)
        /\ pc' = engine_step_raise_next(unfinished, e)
        /\ escaped' = e
    /\ step_count' = step_count + 1
    /\ UNCHANGED <<in_step, use_async_sockets, input_q, health, unfinished,
                   next_rid, sent, probe_count, closed, env, is_sleeping,
                   engine, data_socket, cleanup_count, engine_deleted,
                   engine_alive, kv_stat_logger, metrics, nixl_q,
                   remote_nixl, prefill_out, callbacks, peer_sent,
                   callback_count, request_outputs, dispatch_count>>

\* a callback that does not publish
_async_socket_engine_callback_send_silent(out, outputs) == out

\* _async_socket_engine_callback, its first statement
_async_socket_engine_callback_send(out, outputs) ==
    _send_outputs(out, outputs)

\* overlap mode: engine.step() calls process_request_outputs_callback,
\* _async_socket_engine_callback sends the outputs and enters
\* handle_new_input; the list the callback was given is the one the step
\* returns
StepCallback ==
    /\ pc = "step"
    /\ step_count < env.max_steps
    /\ use_async_sockets
    /\ \E outs \in OutSets(unfinished) :
        /\ unfinished' = engine_finish_requests(unfinished, outs)
        /\ output' = _async_socket_engine_callback_send(output, RequestOutputs(outs))
        /\ request_outputs' = RequestOutputs(outs)
    /\ \E logged \in Logged :
        metrics' = engine_log_stats(metrics, closed, kv_stat_logger, logged)
    /\ engine_calls' = <<Call("step", NoId, None)>>
    /\ step_result' = StepResult("running", NoId, None)
    /\ step_count' = step_count + 1
    /\ in_step' = TRUE
    /\ pc' = "handle"
    /\ UNCHANGED <<use_async_sockets, errored_with, input_q, health,
                   next_rid, sent, probe_count, closed, env, is_sleeping,
                   engine, data_socket, escaped, cleanup_count,
                   engine_deleted, engine_alive, kv_stat_logger, nixl_q,
                   remote_nixl, prefill_out, callbacks, peer_sent,
                   callback_count, dispatch_count>>

\* overlap mode: the callback's handle_new_input found INPUT empty, the
\* callback returns and engine.step() returns
CallbackReturn ==
    /\ pc = "drain"
    /\ in_step
    /\ input_socket_poll_now(input_q) = 0
    /\ output' = run_engine_loop_send(output, use_async_sockets, request_outputs)
    /\ in_step' = FALSE
    /\ step_result' = StepResult("return", NoId, None)
    /\ pc' = LoopTop(unfinished)
    /\ engine_calls' = <<>>
    /\ UNCHANGED <<use_async_sockets, errored_with, input_q, health,
                   unfinished, next_rid, sent, step_count, probe_count,
                   closed, env, is_sleeping, engine, data_socket, escaped,
                   cleanup_count, engine_deleted, engine_alive,
                   kv_stat_logger, metrics, nixl_q, remote_nixl, prefill_out,
                   callbacks, peer_sent, callback_count, request_outputs,
                   dispatch_count>>

\* overlap mode: the callback returns and engine.step() raises afterwards
CallbackRaise ==
    /\ pc = "drain"
    /\ in_step
    /\ input_socket_poll_now(input_q) = 0
    /\ \E e \in StepExc :
        /\ errored_with' = engine_step_errored(errored_with, e)
        /\ output' = engine_step_raise_out(output, e)
        /\ step_result' = StepResult("raise", NoId, e)
        /\ pc' = engine_step_raise_next(unfinished, e)
        /\ escaped' = e
    /\ in_step' = FALSE
    /\ engine_calls' = <<>>
    /\ UNCHANGED <<use_async_sockets, input_q, health, unfinished, next_rid,
                   sent, step_count, probe_count, closed, env, is_sleeping,
                   engine, data_socket, cleanup_count, engine_deleted,
                   engine_alive, kv_stat_logger, metrics, nixl_q,
                   remote_nixl, prefill_out, callbacks, peer_sent,
                   callback_count, request_outputs, dispatch_count>>

(* ---- NIXL peers and remote prefill ---- *)

\* engine ids of the NIXL peers
PeerEngineIds == {1, 2}

\* a peer pushes its metadata on the remote_nixl_metadata_socket, which is
\* bound only when NIXL is initialized
PeerSend ==
    /\ engine.is_nixl_initialized
    /\ pc \notin {"cleanup", "done"}
    /\ peer_sent < MaxFrames
    /\ \E id \in PeerEngineIds :
        nixl_q' = Append(nixl_q, msgpack_encode(NixlMetadata(id)))
    /\ peer_sent' = peer_sent + 1
    /\ UNCHANGED <<pc, in_step, use_async_sockets, errored_with, input_q,
                   output, health, unfinished, engine_calls, step_result,
                   next_rid, sent, step_count, probe_count, closed, env,
                   is_sleeping, engine, data_socket, escaped, cleanup_count,
                   engine_deleted, engine_alive, kv_stat_logger, metrics,
                   remote_nixl, prefill_out, callbacks, callback_count,
                   request_outputs, dispatch_count>>

\* the fields of a RemotePrefillRequest the model tells requests apart by
RemotePrefillRequest(engine_id, request_id) ==
    [engine_id |-> engine_id, request_id |-> request_id]

\* the callback sending nothing
remote_prefill_request_callback_dropped(q, request) == q

\* remote_prefill_request_callback: one send on remote_prefill_request_socket
remote_prefill_request_callback(q, request) ==
    Append(q, msgpack_encode(request))

\* the engine invokes the callback of a request it holds: while
\* add_request admits it, or later in a step
RemotePrefillCallback ==
    /\ engine.is_nixl_initialized
    /\ callback_count < MaxCallbacks
    /\ \E r \in callbacks \cap unfinished :
        /\ \/ pc = "step"
           \/ pc = "drain" /\ engine_calls = <<Call("add_request", r, None)>>
        /\ prefill_out' = remote_prefill_request_callback(
                              prefill_out, RemotePrefillRequest(LocalEngineId, r))
    /\ callback_count' = callback_count + 1
    /\ UNCHANGED <<pc, in_step, use_async_sockets, errored_with, input_q,
                   output, health, unfinished, engine_calls, step_result,
                   next_rid, sent, step_count, probe_count, closed, env,
                   is_sleeping, engine, data_socket, escaped, cleanup_count,
                   engine_deleted, engine_alive, kv_stat_logger, metrics,
                   nixl_q, remote_nixl, callbacks, peer_sent,
                   request_outputs, dispatch_count>>

(* ---- termination ---- *)

\* SIGTERM: signal_handler raises KeyboardInterrupt in the control thread.
\* Outside engine.step() no handler of the loops catches it and it reaches
\* start; inside the step callback it leaves engine.step() and is handled by
\* engine_step like any exception of the step.
Signal ==
    /\ pc \in {"startup", "poll", "handle", "drain", "step"}
    /\ errored_with' = IF in_step
                       THEN engine_step_errored(errored_with, KeyboardInterrupt)
                       ELSE errored_with
    /\ output' = IF in_step
                 THEN engine_step_raise_out(output, KeyboardInterrupt)
                 ELSE output
    /\ step_result' = IF in_step
                      THEN StepResult("raise", NoId, KeyboardInterrupt)
                      ELSE step_result
    /\ in_step' = FALSE
    /\ escaped' = KeyboardInterrupt
    /\ pc' = start_finally(KeyboardInterrupt)
    /\ engine_calls' = <<>>
    /\ UNCHANGED <<use_async_sockets, input_q, health, unfinished, next_rid,
                   sent, step_count, probe_count, closed, env, is_sleeping,
                   engine, data_socket, cleanup_count, engine_deleted,
                   engine_alive, kv_stat_logger, metrics, nixl_q,
                   remote_nixl, prefill_out, callbacks, peer_sent,
                   callback_count, request_outputs, dispatch_count>>

\* SIGTERM while engine.add_lora runs: the KeyboardInterrupt is raised
\* inside the try block of _handle_load_adapter_request, whose
\* `except BaseException` answers it like a load that failed, and the INPUT
\* loop goes on
SignalInAddLora ==
    /\ pc = "drain"
    /\ input_socket_poll_now(input_q) # 0
    /\ Head(input_q).tag = "RPCLoadAdapterRequest"
    /\ LET request == Head(input_q) IN
        /\ engine_calls' = <<Call("add_lora", request.request_id, KeyboardInterrupt)>>
        /\ output' = _handle_load_adapter_request_out(
                         output, request.request_id, KeyboardInterrupt)
    /\ input_q' = input_socket_recv(input_q)
    /\ dispatch_count' = dispatch_count + 1
    /\ UNCHANGED <<pc, in_step, use_async_sockets, errored_with, health,
                   unfinished, step_result, next_rid, sent, step_count,
                   probe_count, closed, env, is_sleeping, engine,
                   data_socket, escaped, cleanup_count, engine_deleted,
                   engine_alive, kv_stat_logger, metrics, nixl_q,
                   remote_nixl, prefill_out, callbacks, peer_sent,
                   callback_count, request_outputs>>

(* ---- properties ---- *)

\* positions of the broadcast errors (request_id None) on OUTPUT
BroadcastIdx(out) ==
    {i \in DOMAIN out : out[i].kind = "RPCError" /\ out[i].request_id = NoId}

\* m ends request r: an RPCError for r or a finished RequestOutput of r
IsTerminalFor(m, r) ==
    \/ m.kind = "RPCError" /\ m.request_id = r
    \/ m.kind = "RequestOutputs" /\ [request_id |-> r, finished |-> TRUE] \in m.outs

\* positions of the messages ending r that no broadcast error precedes
TerminalIdx(out, r) ==
    {i \in DOMAIN out : /\ IsTerminalFor(out[i], r)
                        /\ \A j \in BroadcastIdx(out) : j > i}

CountOp(calls, op) == Cardinality({i \in DOMAIN calls : calls[i].op = op})

FirstCause(cur, e) == IF cur = None THEN e ELSE cur

\* the exception as it is pickled into an RPCError
Sent(e) == IF e = RayTaskError THEN RayCause ELSE e

\* this step is a poll timeout with its health probe
ProbeStep == probe_count' = probe_count + 1

\* this step ends an engine.step() by an exception other than
\* InputProcessingError
StepRaisedStep == step_result.kind # "raise" /\ step_result'.kind = "raise"

\* this step handles an INPUT message whose type has no branch
DispatchFailStep ==
    /\ pc = "drain"
    /\ input_q # <<>>
    /\ Head(input_q).tag \notin Dispatched
    /\ input_q' = Tail(input_q)

\* this step is an admission (engine.add_request) that raised e for r
AdmitRaisedStep(r, e) ==
    /\ pc = "drain"
    /\ input_q # <<>>
    /\ Head(input_q) = RPCProcessRequest(r)
    /\ input_q' = Tail(input_q)
    /\ engine_calls' = <<Call("add_request", r, e), Call("abort_request", r, None)>>

\* C1: every ProcessRequest gets exactly one terminal OUTPUT message (a
\* finished result or an Error, never both, never two Errors) unless a
\* broadcast Error came first; here the part a finite run refutes: no request
\* id has two terminal messages ahead of any broadcast Error.
C1_AtMostOneTerminal ==
    \A r \in RequestIds : Cardinality(TerminalIdx(output, r)) <= 1

\* C2: the error latch is set once: a stored cause is never cleared and never
\* replaced by a later exception.
C2_LatchSetOnce ==
    [][errored_with # None => errored_with' = errored_with]_vars

\* a later, different exception was reported after the latch was set
C2_Witness ==
    /\ errored_with # None
    /\ \E i \in DOMAIN health : health[i] \notin {HEALTHY_RESPONSE, errored_with}

\* C3 as claimed: whenever a step has raised something other than a
\* per-request input error, the latch holds that exception, exactly one
\* broadcast Error is on OUTPUT and the loop has terminated; never more than
\* one broadcast Error.
C3_Original ==
    /\ Cardinality(BroadcastIdx(output)) <= 1
    /\ step_result.kind = "raise" =>
        /\ errored_with = step_result.exception
        /\ Cardinality(BroadcastIdx(output)) = 1
        /\ pc \in {"cleanup", "done"}

\* C3 amended: a step raising anything but a per-request input error or
\* SystemExit sets the latch to that exception unless an earlier cause is
\* stored (which is kept), appends exactly one broadcast
\* Error{None, is_engine_errored=true} to OUTPUT and ends the loop; SystemExit
\* ends the loop with the latch and OUTPUT untouched; after the loop ended no
\* step is taken; at most one broadcast Error is ever emitted.
C3_StepFatal ==
    [][ /\ StepRaisedStep =>
            LET e == step_result'.exception IN
            /\ pc' = "cleanup"
            /\ IF e = SystemExit
               THEN errored_with' = errored_with /\ output' = output
               ELSE /\ errored_with' = FirstCause(errored_with, e)
                    /\ output' = Append(output, RPCError(NoId, TRUE, Sent(e)))
        /\ pc \in {"cleanup", "done"} => step_count' = step_count
        /\ Cardinality(BroadcastIdx(output')) <= 1 ]_vars

\* a step raised a fatal exception, the broadcast Error is out, the loop ended
C3_Witness ==
    /\ step_result.kind = "raise"
    /\ step_result.exception \in StepExc \ {SystemExit}
    /\ Cardinality(BroadcastIdx(output)) = 1
    /\ errored_with = step_result.exception
    /\ pc = "done"

\* C4 as claimed: an exception escaping a dispatch pass sets the latch, puts
\* a broadcast Error{None, true} on OUTPUT and unwinds the loop, in both modes.
C4_Original ==
    [][DispatchFailStep =>
        /\ errored_with' # None
        /\ output' = Append(output, RPCError(NoId, TRUE, ValueError))
        /\ pc' = "cleanup"]_vars

\* C4 amended: an exception escaping a dispatch pass sets the latch (first
\* cause wins), puts the exception on HEALTH and unwinds the loop; a broadcast
\* Error{None, true} goes on OUTPUT only when the pass ran inside the
\* overlap-mode step callback, and nothing goes on OUTPUT when it ran from the
\* main loop.
C4_DispatchFatal ==
    [][DispatchFailStep =>
        /\ errored_with' = FirstCause(errored_with, ValueError)
        /\ health' = Append(health, ValueError)
        /\ pc' = "cleanup"
        /\ output' = IF in_step
                     THEN Append(output, RPCError(NoId, TRUE, ValueError))
                     ELSE output]_vars

\* a dispatch pass of the main loop failed: the cause is on HEALTH, the loop
\* ended and no broadcast Error was sent
C4_Witness ==
    /\ pc = "done"
    /\ errored_with = ValueError
    /\ health # <<>> /\ health[Len(health)] = ValueError
    /\ BroadcastIdx(output) = {}

\* C5: once the latch is set a health probe puts the stored first cause on
\* HEALTH and nothing else.
C5_ProbeReportsStoredCause ==
    [][(errored_with # None /\ ProbeStep) =>
        health' = Append(health, errored_with)]_vars

\* C6: once the latch is set a health probe does not call check_health.
C6_NoCheckHealthAfterLatch ==
    [][(errored_with # None /\ ProbeStep) =>
        CountOp(engine_calls', "check_health") = 0]_vars

\* C7: with the latch unset a health probe puts exactly one message on HEALTH:
\* the healthy sentinel when check_health returns (the latch stays unset), the
\* exception when it raises (the latch is set to it).
C7_ProbeBeforeLatch ==
    [][(errored_with = None /\ ProbeStep) =>
        LET res == engine_calls'[1].raised IN
        /\ CountOp(engine_calls', "check_health") = 1
        /\ engine_calls'[1].op = "check_health"
        /\ IF res = None
           THEN /\ health' = Append(health, HEALTHY_RESPONSE)
                /\ errored_with' = None
           ELSE /\ health' = Append(health, res)
                /\ errored_with' = res]_vars

\* a probe reported healthy and the next one reported the failure it latched
C7_Witness ==
    /\ Len(health) = 2
    /\ health[1] = HEALTHY_RESPONSE
    /\ health[2] \in HealthExc
    /\ errored_with = health[2]

\* C8 as claimed: once the latch is set the Gateway is shutting down.
C8_Original == errored_with # None => pc \in {"cleanup", "done"}

\* C8 amended: a latch set by a step failure or a dispatch failure is followed
\* by shutdown only, and once shutting down the Gateway never again reads
\* INPUT, calls the engine or steps; a latch set by a failed health check
\* leaves the Gateway in its idle loop.
C8_Lifecycle ==
    [][ /\ (errored_with = None /\ errored_with' # None /\ ~ProbeStep)
            => pc' = "cleanup"
        /\ (errored_with = None /\ errored_with' # None /\ ProbeStep)
            => pc' = "poll"
        /\ pc \in {"cleanup", "done"} =>
            /\ pc' \in {"cleanup", "done"}
            /\ engine_calls' = <<>>
            /\ step_count' = step_count
            /\ input_q' = input_q
        /\ pc # "startup" => pc' # "startup" ]_vars

\* the latch was set by a step or dispatch failure and the Gateway shut down
C8_Witness ==
    /\ errored_with # None
    /\ probe_count = 0
    /\ step_count > 0
    /\ pc = "done"

\* C9: when add_request raises for a ProcessRequest the Gateway puts
\* Error{that request_id, is_engine_errored=false} on OUTPUT, aborts the
\* request in the engine, leaves the latch alone and goes on draining.
C9_AdmitFailure ==
    [][\A r \in RequestIds, e \in AdmitExc :
        AdmitRaisedStep(r, e) =>
            /\ output' = Append(output, RPCError(r, FALSE, e))
            /\ errored_with' = errored_with
            /\ r \notin unfinished'
            /\ pc' = "drain"]_vars

\* C10: when a step raises a per-request input error for r the Gateway puts
\* exactly one Error{r, is_engine_errored=false} on OUTPUT and nothing else,
\* leaves the latch alone, calls step once only and starts the next iteration.
C10_StepInputError ==
    [][(step_result'.kind = "ipe" /\ step_count' = step_count + 1) =>
        /\ output' = Append(output, RPCError(step_result'.request_id, FALSE,
                                             step_result'.exception))
        /\ errored_with' = errored_with
        /\ engine_calls' = <<Call("step", step_result'.request_id,
                                   "InputProcessingError")>>
        /\ pc' \in {"poll", "handle"}]_vars

\* a step failed on one request's inputs and the loop went on
C10_Witness ==
    /\ step_result.kind = "ipe"
    /\ pc \in {"poll", "handle", "drain", "step"}
    /\ \E i \in DOMAIN output :
        output[i] = RPCError(step_result.request_id, FALSE, step_result.exception)

\* this step takes one message off INPUT in a drain pass
DrainStep == pc = "drain" /\ input_q # <<>> /\ input_q' = Tail(input_q)

\* C11: a message of any type of the INPUT union (ProcessRequest,
\* AbortRequest, StartProfile/StopProfile, LoadAdapterRequest,
\* ResetMultiModalCache, ResetPrefixCache, Sleep, WakeUp, IsSleeping) is
\* dispatched to an engine operation with the error latch left as it was, and
\* the drain pass goes on; only a message of a type outside the union sets the
\* latch and ends the loop.
C11_UnionDispatched ==
    [][DrainStep =>
        IF Head(input_q).tag \in RPC_REQUEST_T
        THEN /\ errored_with' = errored_with
             /\ engine_calls' # <<>>
             /\ pc' = "drain"
        ELSE /\ errored_with' # None
             /\ pc' = "cleanup"]_vars

\* C12: every way out of the loops (a failed startup, a fatal step, a fatal
\* dispatch, a termination signal anywhere in the loop) leads to cleanup and
\* nowhere else, cleanup runs once, and when the Gateway is done its sockets
\* are closed and the engine is released.
C12_CleanupOnEveryExit ==
    /\ [](pc = "done" => cleanup_count = 1 /\ closed /\ engine_deleted)
    /\ [][ /\ (pc \notin {"cleanup", "done"} /\ pc' \in {"cleanup", "done"})
                => (pc' = "cleanup" /\ cleanup_count' = 0 /\ escaped' # None)
           /\ pc = "cleanup" => (pc' = "done" /\ cleanup_count' = 1)
           /\ cleanup_count' <= 1 ]_vars

\* a termination signal ended the idle loop and cleanup has run
C12_Witness ==
    /\ pc = "done"
    /\ escaped = KeyboardInterrupt
    /\ errored_with = None
    /\ cleanup_count = 1
    /\ closed /\ engine_deleted

\* the exceptions of a step or a dispatch pass that set the latch on their way
\* out of the loop
FatalExc == (StepExc \cup {ValueError}) \ {KeyboardInterrupt, SystemExit}

\* C13: when the Gateway has ended because a step or dispatch exception set
\* the latch and unwound the loop, the liveness flag is cleared; when it has
\* ended by a termination signal the flag is still set.
C13_FlagClearedOnFatal ==
    pc = "done" =>
        /\ (escaped \in FatalExc /\ errored_with # None) => ~engine_alive
        /\ (escaped = KeyboardInterrupt /\ errored_with = None) => engine_alive

\* the main loop is running
InLoop == pc \in {"poll", "handle", "drain", "step"}

\* C14: the Gateway answers the IS_SERVER_READY query with exactly one reply
\* on the data socket, sent before the main loop starts and never followed by
\* another: an RPCStartupResponse with the engine's tracing flag and, exactly
\* when NIXL is initialized, the engine's encoded NIXL metadata; or the
\* exception, when assembling the response raised one.
C14_StartupReply ==
    /\ [](InLoop => Len(data_socket) = 1)
    /\ [](Len(data_socket) <= 1)
    /\ [][ /\ (pc = "startup" /\ InLoop') =>
                LET res == engine_calls'[1].raised IN
                /\ data_socket = <<>>
                /\ Len(data_socket') = 1
                /\ IF res # None
                   THEN data_socket'[1] = ExceptionResponse(res)
                   ELSE /\ data_socket'[1].kind = "RPCStartupResponse"
                        /\ data_socket'[1].tracing_enabled = engine.is_tracing_enabled
                        /\ engine.is_nixl_initialized <=>
                              data_socket'[1].nixl_metadata # NoBytes
                        /\ engine.is_nixl_initialized =>
                              msgpack_decode(data_socket'[1].nixl_metadata)
                                  = engine.nixl_metadata
           /\ pc # "startup" => data_socket' = data_socket ]_vars

\* the reply of an engine with tracing and NIXL is out and the loop runs
C14_Witness ==
    /\ InLoop
    /\ engine.is_tracing_enabled /\ engine.is_nixl_initialized
    /\ data_socket = <<RPCStartupResponse(TRUE, msgpack_encode(NixlMetadata(LocalEngineId)))>>

\* C15: a dispatched LoadAdapterRequest puts exactly one message with its
\* request_id on OUTPUT, RPCAdapterLoadedResponse when add_lora returns and
\* Error{request_id, is_engine_errored=false} when it raises, and an
\* IsSleepingRequest puts exactly one RPCIsSleepingResponse with its
\* request_id and the engine's is_sleeping value there; in both cases the
\* latch is untouched and the drain pass goes on.
C15_LoadAdapterAndIsSleeping ==
    [][ /\ (DrainStep /\ Head(input_q).tag = "RPCLoadAdapterRequest") =>
            LET r == Head(input_q).request_id
                res == engine_calls'[1].raised
            IN  /\ engine_calls' = <<Call("add_lora", r, res)>>
                /\ output' = Append(output,
                                IF res = None THEN RPCAdapterLoadedResponse(r)
                                ELSE RPCError(r, FALSE, res))
                /\ errored_with' = errored_with
                /\ pc' = "drain"
        /\ (DrainStep /\ Head(input_q).tag = "RPCIsSleepingRequest") =>
            LET r == Head(input_q).request_id
            IN  /\ output' = Append(output, RPCIsSleepingResponse(r, is_sleeping))
                /\ is_sleeping' = is_sleeping
                /\ errored_with' = errored_with
                /\ pc' = "drain" ]_vars

\* a failed adapter load was reported for its request and a sleeping query
\* was answered
C15_Witness ==
    /\ Len(output) = 2
    /\ output[1] = RPCError(1, FALSE, "E2")
    /\ output[2] = RPCIsSleepingResponse(2, FALSE)
    /\ errored_with = None

\* C16: dispatching ResetPrefixCache, StartProfile, StopProfile, Sleep or
\* WakeUp calls the matching engine operation exactly once and nothing else,
\* sends nothing on OUTPUT or HEALTH and leaves the latch as it was.
C16_ControlRequests ==
    [][(DrainStep /\ Head(input_q).tag \in ControlTags) =>
        LET request == Head(input_q)
            op == CASE request = RPCUProfileRequest(START_PROFILE) -> "start_profile"
                    [] request = RPCUProfileRequest(STOP_PROFILE) -> "stop_profile"
                    [] request = RPCResetPrefixCacheRequest -> "reset_prefix_cache"
                    [] request = RPCSleepRequest(SLEEP_LEVEL_1) -> "sleep"
                    [] request = RPCWakeUpRequest -> "wake_up"
        IN  /\ engine_calls' = <<Call(op, NoId, None)>>
            /\ output' = output
            /\ health' = health
            /\ errored_with' = errored_with
            /\ unfinished' = unfinished ]_vars

\* two control requests, the last a Sleep, were dispatched and nothing was sent
C16_Witness ==
    /\ engine_calls = <<Call("sleep", NoId, None)>>
    /\ is_sleeping
    /\ sent = 2 /\ input_q = <<>>
    /\ output = <<>> /\ health = <<>>
    /\ errored_with = None

\* C17: dispatching an AbortRequest, for an id the engine holds or not, makes
\* one abort_request call for that id and nothing else: no message on OUTPUT
\* or HEALTH, no exception, the latch as it was, the drain pass going on.
C17_AbortIsSilent ==
    [][(DrainStep /\ Head(input_q).tag = "RPCAbortRequest") =>
        LET r == Head(input_q).request_id
        IN  /\ engine_calls' = <<Call("abort_request", r, None)>>
            /\ unfinished' = unfinished \ {r}
            /\ output' = output
            /\ health' = health
            /\ errored_with' = errored_with
            /\ pc' = "drain" ]_vars

\* an abort for an id no request ever had was dispatched in silence
C17_Witness ==
    /\ next_rid = 1
    /\ engine_calls = <<Call("abort_request", 1, None)>>
    /\ output = <<>> /\ health = <<>>
    /\ errored_with = None
    /\ pc = "drain"

\* C18: the first message on the metrics socket has active slots, active
\* blocks, waiting requests and both rates at zero, and every message on it
\* carries as totals the max_num_seqs and num_gpu_blocks the logger was
\* constructed with.
C18_KvMetricsTotals ==
    /\ metrics # <<>>
    /\ metrics[1] = KvMetrics(0, engine.max_num_seqs, 0, engine.num_gpu_blocks, 0, 0, 0)
    /\ \A i \in DOMAIN metrics :
        /\ metrics[i].request_total_slots = engine.max_num_seqs
        /\ metrics[i].kv_total_blocks = engine.num_gpu_blocks

\* after the zero snapshot the logger reported a running request
C18_Witness ==
    /\ Len(metrics) >= 2
    /\ metrics[2].request_active_slots = 1
    /\ metrics[2].kv_active_blocks = 2

\* C19: admitting a ProcessRequest hands it to add_request with the
\* remote-prefill callback on its parameters exactly when the parameters are
\* present with is_remote_prefill true, and touches no other request's
\* callback; every invocation of a callback puts exactly one
\* RemotePrefillRequest of a request with a callback on the
\* remote_prefill_request_socket and nothing on OUTPUT, and nothing else
\* writes to that socket.
C19_RemotePrefillCallback ==
    /\ [](Len(prefill_out) = callback_count)
    /\ [][ /\ (DrainStep /\ Head(input_q).tag = "RPCProcessRequest") =>
                LET request == Head(input_q) IN
                /\ engine_calls'[1].op = "add_request"
                /\ engine_calls'[1].request_id = request.request_id
                /\ request.request_id \in callbacks' <=>
                      request.remote_prefill_params = RemotePrefillParams(TRUE)
                /\ callbacks' \ {request.request_id} = callbacks
           /\ callback_count' = callback_count + 1 =>
                /\ \E r \in callbacks :
                      prefill_out' = Append(prefill_out, msgpack_encode(
                                         RemotePrefillRequest(LocalEngineId, r)))
                /\ output' = output
                /\ health' = health
           /\ callback_count' = callback_count => prefill_out' = prefill_out ]_vars

\* the callback of request 1 was installed and invoked once
C19_Witness ==
    /\ callbacks = {1}
    /\ callback_count = 1
    /\ prefill_out = <<msgpack_encode(RemotePrefillRequest(LocalEngineId, 1))>>

\* the engine ids of the frames queued on the metadata socket
QueuedIds(frames) == {msgpack_decode(frames[i]).engine_id : i \in DOMAIN frames}

\* C20: with NIXL initialized every pass of handle_new_input first takes all
\* the frames queued on the metadata socket and registers each with the
\* engine before it touches INPUT, an empty metadata socket does not hold the
\* pass up, no INPUT message is dispatched but in a pass begun that way, and
\* no registered engine id is ever dropped.
C20_MetadataBeforeInput ==
    /\ [](pc = "handle" => ENABLED HandleNewInput)
    /\ [][ /\ (pc = "handle" /\ pc' = "drain" /\ engine.is_nixl_initialized) =>
                /\ nixl_q' = <<>>
                /\ remote_nixl' = remote_nixl \cup QueuedIds(nixl_q)
                /\ Len(engine_calls') = Len(nixl_q)
                /\ \A i \in DOMAIN nixl_q :
                      engine_calls'[i] = Call("add_remote_nixl_metadata",
                                              msgpack_decode(nixl_q[i]).engine_id, None)
                /\ input_q' = input_q
           /\ (pc # "drain" /\ pc' = "drain") => pc = "handle"
           /\ DrainStep => (nixl_q' = nixl_q /\ remote_nixl' = remote_nixl)
           /\ remote_nixl \subseteq remote_nixl' ]_vars

\* two frames of different peers were registered by one pass of
\* handle_new_input
C20_Witness ==
    /\ engine.is_nixl_initialized
    /\ Len(engine_calls) = 2
    /\ engine_calls[1].op = "add_remote_nixl_metadata"
    /\ remote_nixl = {1, 2}
    /\ nixl_q = <<>>
    /\ pc = "drain"

OutputsIdx(out) == {i \in DOMAIN out : out[i].kind = "RequestOutputs"}

\* this step is a call of engine_step that returned a list
StepReturnedStep ==
    /\ step_count' = step_count + 1
    /\ step_result'.kind \in {"return", "ipe"}

\* C22: without overlap every iteration is handle_new_input, then one
\* engine_step, then one _send_outputs of what that step returned: a step is
\* entered only from a drain pass that ended on an empty INPUT, a drain pass
\* only from the top of an iteration, after a step no second step follows
\* without another drain pass, the list a step returned is on OUTPUT (when it
\* is not empty) before anything else happens, and lists of RequestOutput get
\* on OUTPUT only that way, each once.
C22_NonOverlapOrder ==
    /\ []((~use_async_sockets /\ request_outputs.outs # {}) =>
            /\ OutputsIdx(output) # {}
            /\ \E i \in OutputsIdx(output) :
                /\ output[i] = request_outputs
                /\ \A j \in OutputsIdx(output) : j <= i)
    /\ [](~use_async_sockets => Cardinality(OutputsIdx(output)) <= step_count)
    /\ [][~use_async_sockets =>
            /\ (pc # "step" /\ pc' = "step") => (pc = "drain" /\ input_q = <<>>)
            /\ (pc # "drain" /\ pc' = "drain") => pc = "handle"
            /\ step_count' # step_count =>
                (pc = "step" /\ pc' # "step" /\ step_count' = step_count + 1)
            /\ StepReturnedStep =>
                /\ pc' \in {"poll", "handle"}
                /\ LET sent_before == IF step_result'.kind = "ipe"
                                      THEN SubSeq(output', 1, Len(output) + 1)
                                      ELSE output
                   IN  output' = IF request_outputs'.outs # {}
                                 THEN Append(sent_before, request_outputs')
                                 ELSE sent_before
            /\ ~StepReturnedStep => OutputsIdx(output') = OutputsIdx(output) ]_vars

\* without overlap two steps each had their outputs published, in order
C22_Witness ==
    /\ ~use_async_sockets
    /\ step_count = 2
    /\ Len(output) = 2
    /\ output[1] = RequestOutputs({[request_id |-> 1, finished |-> FALSE]})
    /\ output[2] = RequestOutputs({[request_id |-> 1, finished |-> TRUE]})
    /\ request_outputs = output[2]

\* C23: with overlap the outputs of a step get on OUTPUT by the callback the
\* engine calls during the step, which then enters handle_new_input inside
\* the step; when the step returns the Gateway sends nothing more, although
\* the step returns the list the callback was given; while the callback runs
\* no step begins; so the lists of RequestOutput appear on OUTPUT one per
\* step that called the callback, in the order of the steps.
C23_OverlapCallback ==
    /\ [](use_async_sockets => Cardinality(OutputsIdx(output)) <= step_count)
    /\ [](in_step => (use_async_sockets /\ pc \in {"handle", "drain"}))
    /\ [][use_async_sockets =>
            /\ (~in_step /\ in_step') =>
                /\ pc = "step" /\ step_count' = step_count + 1
                /\ output' = IF request_outputs'.outs # {}
                             THEN Append(output, request_outputs')
                             ELSE output
                /\ pc' = "handle"
            /\ in_step => step_count' = step_count
            /\ (in_step /\ ~in_step' /\ step_result'.kind = "return") =>
                /\ input_q = <<>>
                /\ request_outputs' = request_outputs
                /\ output' = output
            /\ (step_count' = step_count /\ ~in_step) =>
                OutputsIdx(output') = OutputsIdx(output)
            /\ step_count' # step_count => ~in_step ]_vars

\* with overlap two steps called the callback; each list is on OUTPUT once,
\* in step order, and the second step has returned
C23_Witness ==
    /\ use_async_sockets
    /\ step_count = 2
    /\ ~in_step
    /\ step_result.kind = "return"
    /\ Len(output) = 2
    /\ output[1] = RequestOutputs({[request_id |-> 1, finished |-> FALSE]})
    /\ output[2] = RequestOutputs({[request_id |-> 1, finished |-> TRUE]})
    /\ request_outputs = output[2]

\* the engine calls by which handle_new_input dispatches the message m
DispatchedAs(m, calls) ==
    CASE m.tag = "RPCProcessRequest" ->
            calls # <<>> /\ calls[1].op = "add_request"
                         /\ calls[1].request_id = m.request_id
      [] m.tag = "RPCAbortRequest" ->
            calls = <<Call("abort_request", m.request_id, None)>>
      [] m.tag = "RPCLoadAdapterRequest" ->
            Len(calls) = 1 /\ calls[1].op = "add_lora"
                           /\ calls[1].request_id = m.request_id
      [] m.tag = "RPCIsSleepingRequest" ->
            calls = <<Call("is_sleeping", m.request_id, None)>>
      [] m.tag \in ControlTags -> calls = <<Call(ControlOp(m), NoId, None)>>
      [] OTHER -> calls = <<>>

\* C24: INPUT is a queue the Gateway only takes the oldest message from: a
\* message stays queued, behind those that came before it, until a drain pass
\* takes it, and taking it dispatches it, once; nothing else removes or
\* reorders messages; a drain pass ends only on an empty INPUT; and a queued
\* message never blocks the loop: the idle loop leaves for a drain pass and a
\* drain pass dispatches.  So the messages dispatched and those still queued
\* are always exactly the messages sent.
C24_InputExactlyOnce ==
    /\ [](dispatch_count + Len(input_q) = sent)
    /\ []((pc = "poll" /\ input_q # <<>>) => ENABLED PollReady)
    /\ []((pc = "drain" /\ input_q # <<>>) => ENABLED (DispatchOk \/ DispatchFail))
    /\ [][ /\ dispatch_count' # dispatch_count =>
                /\ dispatch_count' = dispatch_count + 1
                /\ pc = "drain"
                /\ input_q # <<>>
                /\ input_q' = Tail(input_q)
                /\ DispatchedAs(Head(input_q), engine_calls')
                /\ Head(input_q).tag \in Dispatched => pc' = "drain"
           /\ dispatch_count' = dispatch_count =>
                \/ input_q' = input_q
                \/ /\ sent' = sent + 1
                   /\ Len(input_q') = Len(input_q) + 1
                   /\ SubSeq(input_q', 1, Len(input_q)) = input_q
           /\ (pc = "drain" /\ pc' \in {"step", "poll", "handle"}) => input_q = <<>> ]_vars

\* a message that came after the first drain pass had ended was dispatched by
\* the second pass, which followed the first step without a poll
C24_Witness ==
    /\ ~use_async_sockets
    /\ step_count = 1
    /\ probe_count = 0
    /\ errored_with = None
    /\ pc = "drain"
    /\ dispatch_count = 2
    /\ sent = 2
    /\ input_q = <<>>
    /\ engine_calls # <<>>
    /\ engine_calls[1].op \in {"add_request", "abort_request"}

\* C25: with finitely many messages arriving, a pass of handle_new_input
\* begun by run_engine_loop leads to the step of that iteration or to the end
\* of the loop, and a pass begun by the step callback leads back out of the
\* callback; a pass ends only on an empty INPUT or by an exception, and as
\* long as INPUT holds a message the pass can dispatch it, however many it
\* has dispatched already.
C25_DrainReachesStep ==
    /\ (pc = "handle" /\ ~in_step) ~> (pc \in {"step", "cleanup", "done"})
    /\ in_step ~> ~in_step
    /\ []((pc = "drain" /\ input_q # <<>>) => ENABLED (DispatchOk \/ DispatchFail))
    /\ [][(pc = "drain" /\ pc' # "drain") =>
            (input_q = <<>> \/ pc' = "cleanup")]_vars

\* one pass of handle_new_input dispatched every message the client had
\* sent, more than one, and the step is reached
C25_Witness ==
    /\ pc = "step"
    /\ step_count = 0
    /\ dispatch_count = env.max_input
    /\ dispatch_count > 1
    /\ input_q = <<>>

\* this step is a call of engine_step in which engine.step() returned an
\* empty list, or raised a per-request input error so that engine_step
\* returned one
EmptyStep ==
    /\ step_count' = step_count + 1
    /\ step_result'.kind \in {"return", "ipe", "running"}
    /\ request_outputs' = RequestOutputs({})

\* C26: _send_outputs of an empty list or of None sends nothing: a step whose
\* list is empty puts no message on OUTPUT, whether run_engine_loop or the
\* callback publishes it, and after a per-request input error the Error of
\* that request is the only message of the step.
C26_EmptyOutputsNotSent ==
    /\ [](_send_outputs(output, NoOutputs) = output)
    /\ [](_send_outputs(output, RequestOutputs({})) = output)
    /\ [][EmptyStep =>
            IF step_result'.kind = "ipe"
            THEN output' = Append(output, RPCError(step_result'.request_id, FALSE,
                                                   step_result'.exception))
            ELSE output' = output]_vars

\* without overlap a step over an unfinished request returned an empty list
\* and OUTPUT is still empty
C26_Witness ==
    /\ ~use_async_sockets
    /\ step_count = 1
    /\ step_result.kind = "return"
    /\ request_outputs = RequestOutputs({})
    /\ unfinished # {}
    /\ output = <<>>

\* C27: a ProcessRequest dispatched while the latch is set is rejected: one
\* Error{its request_id, is_engine_errored=true} with the engine-dead error
\* built from the stored cause goes on OUTPUT and nothing else, add_request
\* is not called and the engine holds no more requests than before.
C27_RejectedWhenLatched ==
    [][(DrainStep /\ Head(input_q).tag = "RPCProcessRequest" /\ errored_with # None) =>
        LET r == Head(input_q).request_id
        IN  /\ output' = Append(output, RPCError(r, TRUE, ENGINE_DEAD_ERROR(errored_with)))
            /\ CountOp(engine_calls', "add_request") = 0
            /\ unfinished' = unfinished]_vars

\* this step is an interrupt that came while engine.step() was running:
\* raised by the step, or delivered inside its callback
InterruptInStep ==
    \/ /\ step_result.kind # "raise"
       /\ step_result'.kind = "raise"
       /\ step_result'.exception = KeyboardInterrupt
    \/ /\ in_step
       /\ dispatch_count' = dispatch_count + 1
       /\ engine_calls' # <<>>
       /\ engine_calls'[1].raised = KeyboardInterrupt

\* this step is an interrupt that came while the Gateway was polling or
\* dispatching outside engine.step()
InterruptOutsideStep ==
    /\ pc \in {"poll", "handle", "drain"}
    /\ ~in_step
    /\ \/ escaped = None /\ escaped' = KeyboardInterrupt
       \/ /\ dispatch_count' = dispatch_count + 1
          /\ engine_calls' # <<>>
          /\ engine_calls'[1].raised = KeyboardInterrupt

\* C28: an interrupt delivered while the Gateway polls INPUT or dispatches
\* outside a step ends the loop with the latch and OUTPUT as they were; an
\* interrupt delivered while a step runs, its callback included, sets the
\* latch, puts the broadcast Error{None, is_engine_errored=true} on OUTPUT and
\* ends the loop.
C28_SignalShutdown ==
    [][ /\ InterruptOutsideStep =>
            /\ pc' = "cleanup"
            /\ errored_with' = errored_with
            /\ output' = output
        /\ InterruptInStep =>
            /\ pc' = "cleanup"
            /\ errored_with' # None
            /\ output' = Append(output, RPCError(NoId, TRUE, KeyboardInterrupt)) ]_vars

Next ==
    \/ ClientSend
    \/ run_startup_loop
    \/ cleanup
    \/ PollTimeout
    \/ PollReady
    \/ HandleNewInput
    \/ DispatchOk
    \/ DispatchFail
    \/ DrainDone
    \/ StepReturn
    \/ StepInputProcessingError
    \/ StepRaise
    \/ StepCallback
    \/ CallbackReturn
    \/ CallbackRaise

Spec == Init /\ [][Next]_vars

\* the client uses every request type
InitRpc ==
    /\ Constructed(PlainEngine)
    /\ env = Env(RPC_REQUEST_T \cup {"Unknown"}, RpcInput, RpcSteps, RpcProbes,
                 {}, {}, {NoParams})

SpecRpc == InitRpc /\ [][Next]_vars

\* the request types of the runs with a termination signal
SigTags == BasicTags \cup {"RPCLoadAdapterRequest"}

\* a termination signal may arrive
InitSig ==
    /\ Constructed(PlainEngine)
    /\ env = Env(SigTags, SmallInput, SmallSteps, SmallProbes, {}, {}, {NoParams})

NextSig == Next \/ Signal \/ SignalInAddLora

SpecSig == InitSig /\ [][NextSig]_vars

\* any engine, and assembling the startup response may raise
InitStartup ==
    /\ \E t \in BOOLEAN, n \in BOOLEAN : Constructed(Engine(t, n, 2, 4))
    /\ env = Env(BasicTags, SmallInput, SmallSteps, SmallProbes, StartupExc, {}, {NoParams})

SpecStartup == InitStartup /\ [][Next]_vars

\* engines of several capacities that log their stats
InitKv ==
    /\ \E s \in SlotCaps, b \in BlockCaps : Constructed(Engine(FALSE, FALSE, s, b))
    /\ env = Env(BasicTags, SmallInput, SmallSteps, SmallProbes, {}, StatsSet, {NoParams})

SpecKv == InitKv /\ [][Next]_vars

\* engines with and without NIXL, and peers that push metadata
InitNixl ==
    /\ \E n \in BOOLEAN : Constructed(Engine(FALSE, n, 2, 4))
    /\ env = Env(BasicTags, SmallInput, SmallSteps, SmallProbes, {}, {}, {NoParams})

NextNixl == Next \/ PeerSend

SpecNixl == InitNixl /\ [][NextNixl]_vars

\* engines with and without NIXL, and a client whose ProcessRequests come
\* with and without remote-prefill parameters
InitPrefill ==
    /\ \E n \in BOOLEAN : Constructed(Engine(FALSE, n, 2, 4))
    /\ env = Env(BasicTags, SmallInput, SmallSteps, SmallProbes, {}, {},
                 {NoParams, RemotePrefillParams(FALSE), RemotePrefillParams(TRUE)})

NextPrefill == Next \/ RemotePrefillCallback

SpecPrefill == InitPrefill /\ [][NextPrefill]_vars

\* the request types of the runs about the order of the loop
LoopTags == {"RPCProcessRequest", "RPCAbortRequest", "Unknown"}

\* a loop that takes several steps
InitLoop ==
    /\ Constructed(PlainEngine)
    /\ env = Env(LoopTags, SmallInput, LoopSteps, LoopProbes, {}, {}, {NoParams})

SpecLoop == InitLoop /\ [][Next]_vars

\* handle_new_input runs on: the thread of the loop is never suspended inside
\* it, since its polls do not wait and every handler returns or raises
handle_new_input_runs ==
    \/ HandleNewInput
    \/ DispatchOk
    \/ DispatchFail
    \/ DrainDone
    \/ CallbackReturn
    \/ CallbackRaise

\* a client that sends several messages, finitely many, to a loop that runs on
InitLive ==
    /\ Constructed(PlainEngine)
    /\ env = Env(LoopTags, LoopInput, SmallSteps, SmallProbes, {}, {}, {NoParams})

SpecLive == InitLive /\ [][Next]_vars /\ WF_vars(handle_new_input_runs)
====
